---- MODULE Spec2Model ----
(***************************************************************************)
(* Model of the crypto-aggregator entry point (index.js): start-up         *)
(* validation, the three job adapters, main's start-up tick, the daily     *)
(* node-cron callback and the SIGINT handler.                              *)
(*                                                                         *)
(* The repository holds two revisions of the program: src/index.js (no     *)
(* finally blocks, collection names required) and the listing in           *)
(* src/unnamed/part_000 (finally blocks that close the client, collection  *)
(* names defaulted, proxy diagnostics).  The variable `variant` says which *)
(* revision runs.                                                          *)
(*                                                                         *)
(* JavaScript runs each turn of the event loop to completion: a timer, a   *)
(* signal or an I/O completion is delivered only when the code that the    *)
(* previous one resumed has reached its next pending await.  Each action   *)
(* below is one such turn: the event, and every statement that runs        *)
(* before the next await on real I/O (catch and finally blocks, the return *)
(* to the caller, the caller's next call).                                 *)
(***************************************************************************)
EXTENDS Integers, Sequences, FiniteSets, TLC

VARIABLES
    variant,    \* which revision of index.js runs
    env,        \* process.env: the four variables start-up validation reads
    hostOffset, \* host time zone, hours east of UTC (what getDay() uses)
    startDow,   \* UTC day of week at process start, 0 = Sunday
    running,    \* the process has not exited
    exitCode,   \* argument of process.exit, -1 while running
    mainPc,     \* "load" | "startup" | "scheduled" | "exited"
    registered, \* cron.schedule has been called
    day,        \* number of 00:00 UTC boundaries passed since process start
    regDay,     \* value of `day` when cron.schedule was called, -1 before
    ticks,      \* the ticks started so far (start-up tick first), in order
    sig,        \* the SIGINT handler
    cfg         \* configuration resolved at module load, and the log lines
                \* built from it

vars == <<variant, env, hostOffset, startDow, running, exitCode, mainPc,
          registered, day, regDay, ticks, sig, cfg>>

\* ------------------------------------------------------------------ bounds
MaxDays == 2

\* ------------------------------------------------------------ input domains
Variants == {"index_js", "part_000"}

EnvValues == {"absent", "empty", "set"}

\* Representative environments: everything set, and each variable missing
\* or empty in turn.
AllSet == [mongo |-> "set", apiKey |-> "set", secColl |-> "set", mktColl |-> "set"]

Envs ==
    {AllSet} \cup
    {[AllSet EXCEPT !.mongo = v] : v \in {"absent", "empty"}} \cup
    {[AllSet EXCEPT !.apiKey = v] : v \in {"absent", "empty"}} \cup
    {[AllSet EXCEPT !.secColl = "absent"], [AllSet EXCEPT !.mktColl = "empty"]}

TzOffsets == {0 - 5, 0, 9}

StartDows == {5, 6}

\* What a collaborator call can do: succeed, or throw / reject with a value.
\* "Error": an Error whose message lacks the proxy marker; "AuthError": an
\* Error whose message contains ERR_INVALID_AUTH_CREDENTIALS; "NoMessage": a
\* thrown value without a string message (null, undefined, a string, ...).
ThrownKinds == {"Error", "AuthError", "NoMessage"}

Outcomes == {"ok"} \cup ThrownKinds

\* Where the code never looks at the thrown value (the LunarCrush adapter,
\* the SIGINT handler, close() in a finally block) one kind stands for all.
PlainOutcomes == {"ok", "Error"}

\* What fetchCryptocurrencies() can resolve to: the list read from the API.
\* The program only passes it on, so one list stands for all.
Datasets == {"coins"}

\* Outcomes of await fetchCryptocurrencies(): a dataset, or a rejection.
FetchOutcomes == Datasets \cup {"Error"}

\* ------------------------------------------------------- configuration
\* process.env.X || default, process.env.X ? ... : ..., !value
Truthy(v) == v = "set"

\* const MONGO_URL = process.env.MONGO_URL || 'mongodb://localhost:27017/crypto_db'
MONGO_URL(e) == IF Truthy(e.mongo) THEN "set" ELSE "default"

\* certikConfig: the collection names are defaulted in part_000 only
CollectionName(v, e) ==
    IF Truthy(e) THEN "set" ELSE IF v = "part_000" THEN "default" ELSE e

certikConfig(v, e) ==
    [mongoUrl |-> MONGO_URL(e),
     securityScoresCollection |-> CollectionName(v, e.secColl),
     marketDataCollection |-> CollectionName(v, e.mktColl)]

lunarConfig(e) == [mongoUrl |-> MONGO_URL(e), apiKey |-> e.apiKey]

Falsy(x) == x \in {"absent", "empty"}

\* The first validation block: index.js also requires both collection names.
CertikValidationFails(v, e) ==
    IF v = "index_js"
    THEN \/ Falsy(certikConfig(v, e).mongoUrl)
         \/ Falsy(certikConfig(v, e).securityScoresCollection)
         \/ Falsy(certikConfig(v, e).marketDataCollection)
    ELSE Falsy(certikConfig(v, e).mongoUrl)

\* Mutant: only an unset key is rejected (apiKey === undefined).
LunarValidationFailsUnsetOnly(e) == lunarConfig(e).apiKey = "absent"

\* if (!lunarConfig.apiKey) { ...; process.exit(1); }
LunarValidationFails(e) == Falsy(lunarConfig(e).apiKey)

\* ---------------------------------------------------------------- time
UtcDow(d) == (startDow + d) % 7

\* new Date().getDay(): the day of week in the host's time zone, at the
\* 00:00 UTC instant of boundary d.
GetDay(d, off) == (((UtcDow(d) + 7) * 24 + off) \div 24) % 7

\* ---------------------------------------------------------------- jobs
\* One call of an adapter.  pc: "idle" (not called), the await it is
\* suspended at ("crawl", "ensure", "fetch", "save", "close"), "returned" or
\* "threw".  client: "none", "open", or "closed" once close() was called on
\* it.  pending: an exception is propagating through the finally block.
\* data: the const `data` of handleLunarCrushCrawl while it is in use;
\* saveArg: the argument of the saveToMongoDB call that is in progress.
IdleJob == [pc |-> "idle", client |-> "none", pending |-> FALSE,
            data |-> "none", saveArg |-> "none"]

JobDone(j) == j.pc \in {"returned", "threw"}

JobInProgress(j) == j.pc \notin {"idle", "returned", "threw"}

\* The catch block of handleCertikSynchronizedCrawl in part_000 evaluates
\* error.message.includes(...): a TypeError when the thrown value has no
\* string message.  Every other catch block only logs.
CatchThrows(v, sel, k) == v = "part_000" /\ sel = "sync" /\ k = "NoMessage"

\* Leaving the try/catch.  part_000: finally { if (client) await
\* client.close(); }, then return or rethrow.  index.js: return.
Finally(v, j) ==
    IF v = "index_js"
    THEN [j EXCEPT !.pc = "returned"]
    ELSE IF j.client = "open"
         THEN [j EXCEPT !.pc = "close", !.client = "closed"]
         ELSE [j EXCEPT !.pc = IF j.pending THEN "threw" ELSE "returned",
                        !.pending = FALSE]

\* await client.close() of a finally block settles with outcome o.
FinallyCloseSettled(j, o) ==
    [j EXCEPT !.pc = IF o = "ok" /\ ~j.pending THEN "returned" ELSE "threw",
              !.pending = FALSE]

\* catch (error) {...} of a Certik adapter, entered with thrown value k
CertikCatch(v, sel, j, k) ==
    Finally(v, [j EXCEPT !.pending = CatchThrows(v, sel, k)])

\* handleCertik...(): new CertikCrawler(certikConfig) with outcome o, then
\* crawler.crawlData(...)
CertikStart(v, sel, o) ==
    IF o = "ok"
    THEN [IdleJob EXCEPT !.pc = "crawl", !.client = "open"]
    ELSE CertikCatch(v, sel, IdleJob, o)

\* await crawler.crawlData(...) settles with outcome o
CertikCrawlSettled(v, sel, j, o) ==
    IF o = "ok" THEN Finally(v, j) ELSE CertikCatch(v, sel, j, o)

\* Mutant: the catch block starts the job over (a retry within the tick).
LunarCatchRetry(v, j) ==
    IF j.client = "open" THEN [j EXCEPT !.pc = "ensure"] ELSE Finally(v, j)

\* catch (error) { console.error('Error in LunarCrush crawler:', error); }
LunarCatch(v, j) == Finally(v, [j EXCEPT !.pending = FALSE])

\* handleLunarCrushCrawl(): new LunarCrush(lunarConfig) with outcome o,
\* then lunarCrush.ensureCollection()
LunarStart(v, o) ==
    IF o = "ok"
    THEN [IdleJob EXCEPT !.pc = "ensure", !.client = "open"]
    ELSE LunarCatch(v, IdleJob)

\* await ensureCollection() settles: fetchCryptocurrencies() is called
LunarEnsureSettled(v, j, o) ==
    IF o = "ok" THEN [j EXCEPT !.pc = "fetch"] ELSE LunarCatch(v, j)

\* const data = await fetchCryptocurrencies() settles with o:
\* saveToMongoDB(data) is called
LunarFetchSettled(v, j, o) ==
    IF o \in Datasets
    THEN [j EXCEPT !.pc = "save", !.data = o, !.saveArg = o]
    ELSE LunarCatch(v, j)

\* await saveToMongoDB(data) settles: index.js calls close() inside the
\* try block, part_000 leaves the try block for its finally
LunarSaveSettled(v, j, o) ==
    LET k == [j EXCEPT !.data = "none", !.saveArg = "none"]
    IN  IF o # "ok" THEN LunarCatch(v, k)
        ELSE IF v = "index_js"
             THEN [k EXCEPT !.pc = "close", !.client = "closed"]
             ELSE Finally(v, k)

\* await lunarCrush.close() settles: inside the try block in index.js (a
\* rejection is caught and logged), inside the finally block in part_000
LunarCloseSettled(v, j, o) ==
    IF v = "index_js"
    THEN IF o = "ok" THEN [j EXCEPT !.pc = "returned"] ELSE LunarCatch(v, j)
    ELSE FinallyCloseSettled(j, o)

\* --------------------------------------------------------------- ticks
\* One run of "Certik job, then LunarCrush job": main's start-up run or
\* one call of the cron callback.  state: "active", "complete", or
\* "rejected" when an adapter threw into the caller.
NewTick(kind, at, sel) ==
    [kind |-> kind, at |-> at, sel |-> sel, state |-> "active",
     certik |-> IdleJob, lunar |-> IdleJob]

TickIds == 1..Len(ticks)

\* Mutant: the caller goes on without awaiting the Certik adapter.
CertikNotAwaited(t) == t.certik.pc # "idle"

\* `await handleCertik...()` has settled: the caller resumes.
CertikAwaited(t) == JobDone(t.certik)

\* `await handleLunarCrushCrawl()` has settled: the caller returns, or the
\* exception leaves it.
AfterLunar(t) ==
    IF t.state = "active" /\ JobDone(t.lunar)
    THEN [t EXCEPT !.state = IF t.lunar.pc = "threw" THEN "rejected" ELSE "complete"]
    ELSE t

\* The caller after `await handleCertik...()`: handleLunarCrushCrawl() is
\* called (its constructor has outcome ol), unless the adapter threw.
AfterCertik(v, t, ol) ==
    IF t.state = "active" /\ t.lunar.pc = "idle" /\ CertikAwaited(t)
    THEN IF t.certik.pc = "threw"
         THEN [t EXCEPT !.state = "rejected"]
         ELSE AfterLunar([t EXCEPT !.lunar = LunarStart(v, ol)])
    ELSE AfterLunar(t)

\* A tick starts: the Certik adapter is called, and runs to its first await
StartTick(v, kind, at, sel, oc, ol) ==
    AfterCertik(v, [NewTick(kind, at, sel) EXCEPT !.certik = CertikStart(v, sel, oc)], ol)

Exit(code) ==
    /\ running' = FALSE
    /\ exitCode' = code
    /\ mainPc' = "exited"

\* What the end of tick t does to the process.
\*  start-up tick complete: cron.schedule(...), main returns;
\*  start-up tick rejected: main's catch, process.exit(1);
\*  scheduled tick rejected: the callback's promise rejects; node-cron
\*  either reports a failed task or leaves the rejection unhandled, which
\*  ends the process with code 1 (crash).
TickEffects(t) ==
    IF t.state = "rejected"
    THEN /\ IF t.kind = "startup"
            THEN Exit(1)
            ELSE Exit(1) \/ UNCHANGED <<running, exitCode, mainPc>>
         /\ UNCHANGED <<registered, regDay>>
    ELSE IF t.state = "complete" /\ t.kind = "startup"
         THEN /\ registered' = TRUE
              /\ regDay' = day
              /\ mainPc' = "scheduled"
              /\ UNCHANGED <<running, exitCode>>
         ELSE UNCHANGED <<running, exitCode, mainPc, registered, regDay>>

\* ======================================================================
\* Configuration: MAX_THREADS, PROXIES and the log lines built from them
\* ======================================================================
\* Strings of the environment are sequences of characters.
MaxMtLen == 2

MaxProxies == 2

MtChars == {"0", "4", "-", "x", " "}

Strings(chars, n) == UNION {[1..k -> chars] : k \in 0..n}

\* process.env.MAX_THREADS: undefined, or a string
MaxThreadsEnvs ==
    {[set |-> FALSE, chars |-> <<>>]} \cup
    {[set |-> TRUE, chars |-> c] : c \in Strings(MtChars, MaxMtLen)}

\* os.cpus().length
CpuCounts == {1, 2, 3, 8}

\* A JavaScript number: an integer or NaN.
Num(n) == [nan |-> FALSE, val |-> n]

NaN == [nan |-> TRUE, val |-> 0]

Digits == {"0", "4"}

DigitValue(c) == IF c = "4" THEN 4 ELSE 0

RECURSIVE TrimStart(_)
TrimStart(s) == IF s # <<>> /\ Head(s) = " " THEN TrimStart(Tail(s)) ELSE s

RECURSIVE ReadDigits(_, _)
ReadDigits(s, acc) ==
    IF s # <<>> /\ Head(s) \in Digits
    THEN ReadDigits(Tail(s), acc * 10 + DigitValue(Head(s)))
    ELSE acc

\* parseInt(str, 10): leading white space is skipped, an optional sign is
\* read, then the longest run of digits; no digit there gives NaN, and
\* whatever follows the digits is ignored.
parseInt(str) ==
    LET t == TrimStart(str)
        neg == t # <<>> /\ Head(t) = "-"
        body == IF neg THEN Tail(t) ELSE t
    IN  IF body = <<>> \/ Head(body) \notin Digits
        THEN NaN
        ELSE Num(IF neg THEN 0 - ReadDigits(body, 0) ELSE ReadDigits(body, 0))

Max(a, b) == IF a >= b THEN a ELSE b

\* maxThreads: process.env.MAX_THREADS ? parseInt(process.env.MAX_THREADS, 10)
\*                                     : Math.max(os.cpus().length - 2, 1)
maxThreads(mt, cpus) ==
    IF mt.set /\ mt.chars # <<>>
    THEN parseInt(mt.chars)
    ELSE Num(Max(cpus - 2, 1))

\* ------------------------------------------------------------- PROXIES
\* A destructured array element that is not there.  In a template literal
\* it reads "undefined".
Undefined == <<"undefined">>

TruthyString(f) == f # Undefined /\ f # <<>>

Chars(text) ==
    CASE text = "h1:80:u:s1"   -> <<"h", "1", ":", "8", "0", ":", "u", ":", "s", "1">>
      [] text = "h1:80:u:s2"   -> <<"h", "1", ":", "8", "0", ":", "u", ":", "s", "2">>
      [] text = "bad"          -> <<"b", "a", "d">>
      [] text = "h1:80:u"      -> <<"h", "1", ":", "8", "0", ":", "u">>
      [] text = "h1::u:s1"     -> <<"h", "1", ":", ":", "u", ":", "s", "1">>
      [] text = "h1:80:u:s1:x" -> <<"h", "1", ":", "8", "0", ":", "u", ":", "s", "1", ":", "x">>
      [] OTHER                 -> <<>>

\* Elements a JSON list in PROXIES can have: strings, and the number 5.
ListItems ==
    {[type |-> "string", chars |-> Chars(t)] :
        t \in {"h1:80:u:s1", "h1:80:u:s2", "bad", "h1:80:u", "h1::u:s1",
               "h1:80:u:s1:x", ""}} \cup
    {[type |-> "number", chars |-> <<>>]}

\* process.env.PROXIES: undefined, '', text that is not JSON, the JSON
\* object '{}', or a JSON list.
ProxiesEnvs ==
    {[kind |-> k, items |-> <<>>] : k \in {"unset", "empty", "invalid", "object"}} \cup
    {[kind |-> "list", items |-> l] : l \in Strings(ListItems, MaxProxies)}

\* String.prototype.split(':') from position i on, `cur` being the field
\* read so far.
RECURSIVE SplitFrom(_, _, _)
SplitFrom(s, i, cur) ==
    IF i > Len(s) THEN <<cur>>
    ELSE IF s[i] = ":" THEN <<cur>> \o SplitFrom(s, i + 1, <<>>)
         ELSE SplitFrom(s, i + 1, Append(cur, s[i]))

split(s) == SplitFrom(s, 1, <<>>)

\* The map callback: const [host, port, username, password] =
\* proxy.split(':'), and the url built from the four.
ProxyRecord(proxy) ==
    LET parts == split(proxy)
        part(n) == IF n <= Len(parts) THEN parts[n] ELSE Undefined
    IN  [host |-> part(1), port |-> part(2), username |-> part(3),
         password |-> part(4),
         url |-> <<"http://">> \o part(3) \o <<":">> \o part(4) \o <<"@">>
                 \o part(1) \o <<":">> \o part(2)]

\* Mutant: the filter does not look at the password.
KeptWithoutPassword(p) ==
    TruthyString(p.host) /\ TruthyString(p.port) /\ TruthyString(p.username)

\* .filter(proxy => proxy.host && proxy.port && proxy.username && proxy.password)
Kept(p) ==
    /\ TruthyString(p.host) /\ TruthyString(p.port)
    /\ TruthyString(p.username) /\ TruthyString(p.password)

\* Mutant: a list that yields no record is reported like a parse error.
ParseThrowsOrEmpty(raw) ==
    \/ raw.kind \in {"invalid", "object"}
    \/ raw.kind = "list" /\
         \A i \in 1..Len(raw.items) :
            raw.items[i].type # "string" \/ ~Kept(ProxyRecord(raw.items[i].chars))

\* What makes the try block of parseProxies throw: JSON.parse on text that
\* is not JSON, proxies.map on a value that is not a list, proxy.split on an
\* element that is not a string.
ParseThrows(raw) ==
    \/ raw.kind = "invalid"
    \/ raw.kind = "object"
    \/ raw.kind = "list" /\ \E i \in 1..Len(raw.items) : raw.items[i].type # "string"

\* parseProxies(): the pool, and whether console.warn was called
parseProxies(raw) ==
    IF raw.kind \in {"unset", "empty"} THEN [pool |-> <<>>, warned |-> FALSE]
    ELSE IF ParseThrows(raw) THEN [pool |-> <<>>, warned |-> TRUE]
    ELSE [pool |-> SelectSeq([i \in 1..Len(raw.items) |->
                                 ProxyRecord(raw.items[i].chars)], Kept),
          warned |-> FALSE]

\* ---------------------------------------------------------- log records
LogRecord(msg, fields) == [msg |-> msg, fields |-> fields]

\* certikConfig.proxies of revision v
Proxies(v, raw) == IF v = "part_000" THEN parseProxies(raw).pool ELSE <<>>

\* What loading the module logs: parseProxies() is called for
\* certikConfig.proxies and again for puppeteerOptions.args, and each call
\* that throws warns.
LoadLog(v, raw) ==
    IF v = "part_000" /\ parseProxies(raw).warned
    THEN <<LogRecord("Error parsing proxies:", <<>>),
           LogRecord("Error parsing proxies:", <<>>)>>
    ELSE <<>>

\* certikConfig.puppeteerOptions.args
PuppeteerArgs(pool) ==
    << <<"--no-sandbox">>, <<"--disable-setuid-sandbox">>,
       <<"--disable-dev-shm-usage">>, <<"--disable-accelerated-2d-canvas">>,
       <<"--disable-gpu">>, <<"--window-size=1920x1080">> >>
    \o (IF Len(pool) > 0 THEN << <<"--proxy-server=">> \o pool[1].url >> ELSE <<>>)

\* The first statements of main(): part_000 logs { ...certikConfig, proxies:
\* summary }, which console.log prints down to the elements of
\* puppeteerOptions.args.
MainLog(v, pool) ==
    <<LogRecord("Starting initial data collection...", <<>>)>> \o
    (IF v = "part_000"
     THEN <<LogRecord("Configuration:",
               << IF Len(pool) > 0
                  THEN <<ToString(Len(pool)), " proxies configured">>
                  ELSE <<"No proxies">> >> \o PuppeteerArgs(pool))>>
     ELSE <<>>)

\* After the constructor, inside the try block of a Certik adapter.
CertikTryLog(v, sel, pool) ==
    <<LogRecord(IF sel = "sync"
                THEN "Running Certik synchronized crawl for both collections..."
                ELSE "Running Certik daily market data crawler...", <<>>)>> \o
    (IF v = "part_000" /\ Len(pool) > 0
     THEN <<LogRecord("Using proxy:", <<pool[1].host \o <<":">> \o pool[1].port>>)>>
     ELSE <<>>)

\* Mutant: the diagnostic prints the whole proxy record.
ProxyDiagnosticWithUrl(pool) ==
    LogRecord("Current proxy configuration:",
              <<pool[1].host, pool[1].port, pool[1].url>>)

\* console.error('Current proxy configuration:', { host, port, hasCredentials })
ProxyDiagnostic(pool) ==
    LogRecord("Current proxy configuration:",
              <<pool[1].host, pool[1].port,
                IF TruthyString(pool[1].username) /\ TruthyString(pool[1].password)
                THEN <<"true">> ELSE <<"false">> >>)

\* The catch block of a Certik adapter for a thrown value of kind k.
CertikCatchLog(v, sel, k, pool) ==
    <<LogRecord(IF sel = "sync" THEN "Error in Certik synchronized crawl:"
                ELSE "Error in Certik daily market data crawler:", <<<<k>>>>)>> \o
    (IF v = "part_000" /\ sel = "sync" /\ k = "AuthError"
     THEN <<LogRecord("Proxy authentication failed. Please check your proxy credentials.", <<>>)>>
          \o (IF Len(pool) > 0 THEN <<ProxyDiagnostic(pool)>> ELSE <<>>)
     ELSE <<>>)

\* All a Certik adapter logs when its constructor ends with oc and, if it
\* was called, crawlData with o.
CertikJobLog(v, sel, oc, o, pool) ==
    IF oc # "ok" THEN CertikCatchLog(v, sel, oc, pool)
    ELSE CertikTryLog(v, sel, pool) \o
         (IF o # "ok" THEN CertikCatchLog(v, sel, o, pool) ELSE <<>>)

\* The configuration state outside the configuration specification.
NoCfg ==
    [pc |-> "off", maxThreadsEnv |-> [set |-> FALSE, chars |-> <<>>], cpus |-> 4,
     proxiesEnv |-> [kind |-> "unset", items |-> <<>>],
     maxThreads |-> NaN, proxies |-> <<>>, args |-> <<>>, log |-> <<>>,
     job |-> [sel |-> "none", oc |-> "none", o |-> "none"]]

\* The inputs vary one dimension at a time: every environment under UTC,
\* every time zone and start day under the complete environment.
Init ==
    /\ variant \in Variants
    /\ env \in Envs
    /\ hostOffset \in TzOffsets
    /\ startDow \in StartDows
    /\ env = AllSet \/ (hostOffset = 0 /\ startDow = 6)
    /\ running = TRUE
    /\ exitCode = 0 - 1
    /\ mainPc = "load"
    /\ registered = FALSE
    /\ day = 0
    /\ regDay = 0 - 1
    /\ ticks = <<>>
    /\ sig = [received |-> FALSE, awaiting |-> FALSE, ctorFailed |-> FALSE,
              closes |-> {}]
    /\ cfg = NoCfg

\* Loading the module: start-up validation, then main() up to its first
\* pending await.
Load(oc, ol) ==
    /\ running /\ mainPc = "load"
    /\ IF CertikValidationFails(variant, env) \/ LunarValidationFails(env)
       THEN /\ Exit(1)
            /\ UNCHANGED <<ticks, registered, regDay>>
       ELSE LET t == StartTick(variant, "startup", 0, "sync", oc, ol)
            IN /\ ticks' = <<t>>
               /\ IF t.state = "active"
                  THEN /\ mainPc' = "startup"
                       /\ UNCHANGED <<running, exitCode, registered, regDay>>
                  ELSE TickEffects(t)
    /\ UNCHANGED <<variant, env, hostOffset, startDow, day, sig, cfg>>

\* The turn in which an await of tick i settles and leaves it as t.
Resume(i, t) ==
    /\ ticks' = [ticks EXCEPT ![i] = t]
    /\ TickEffects(t)
    /\ UNCHANGED <<variant, env, hostOffset, startDow, day, sig, cfg>>

CertikCrawlSettle(i, o, ol) ==
    /\ running /\ ticks[i].certik.pc = "crawl"
    /\ Resume(i, AfterCertik(variant,
                   [ticks[i] EXCEPT !.certik =
                       CertikCrawlSettled(variant, ticks[i].sel, @, o)], ol))

CertikCloseSettle(i, o, ol) ==
    /\ running /\ ticks[i].certik.pc = "close"
    /\ Resume(i, AfterCertik(variant,
                   [ticks[i] EXCEPT !.certik = FinallyCloseSettled(@, o)], ol))

LunarEnsureSettle(i, o) ==
    /\ running /\ ticks[i].lunar.pc = "ensure"
    /\ Resume(i, AfterLunar([ticks[i] EXCEPT !.lunar =
                                LunarEnsureSettled(variant, @, o)]))

LunarFetchSettle(i, o) ==
    /\ running /\ ticks[i].lunar.pc = "fetch"
    /\ Resume(i, AfterLunar([ticks[i] EXCEPT !.lunar =
                                LunarFetchSettled(variant, @, o)]))

LunarSaveSettle(i, o) ==
    /\ running /\ ticks[i].lunar.pc = "save"
    /\ Resume(i, AfterLunar([ticks[i] EXCEPT !.lunar =
                                LunarSaveSettled(variant, @, o)]))

LunarCloseSettle(i, o) ==
    /\ running /\ ticks[i].lunar.pc = "close"
    /\ Resume(i, AfterLunar([ticks[i] EXCEPT !.lunar =
                                LunarCloseSettled(variant, @, o)]))

\* ------------------------------------------------------------ the schedule
\* if (new Date().getDay() === 0) synchronized else daily market data
CertikVariantFor(getDay) == IF getDay = 0 THEN "sync" ELSE "market"

\* Mutant: a trigger that skips a boundary while a tick is in progress.
CronCallsSkipBusy ==
    IF registered /\ \A i \in TickIds : ticks[i].state # "active" THEN 1 ELSE 0

\* node-cron, '0 0 * * *' with timezone 'UTC': how many times the callback
\* is called at a 00:00 UTC boundary.  It does not wait for earlier calls.
CronCalls == IF registered THEN 1 ELSE 0

\* A 00:00 UTC boundary passes; the callback, if scheduled, runs to its
\* first pending await.
Midnight(oc, ol) ==
    /\ running /\ mainPc # "load"
    /\ day < MaxDays
    /\ day' = day + 1
    /\ IF CronCalls = 0
       THEN UNCHANGED <<ticks, running, exitCode, mainPc>>
       ELSE LET t == StartTick(variant, "scheduled", day + 1,
                               CertikVariantFor(GetDay(day + 1, hostOffset)), oc, ol)
            IN /\ ticks' = ticks \o [n \in 1..CronCalls |-> t]
               /\ IF t.state = "rejected"
                  THEN Exit(1) \/ UNCHANGED <<running, exitCode, mainPc>>
                  ELSE UNCHANGED <<running, exitCode, mainPc>>
    /\ UNCHANGED <<variant, env, hostOffset, startDow, registered, regDay, sig, cfg>>

\* ------------------------------------------------------- SIGINT handler
\* Mutant: the handler closes the crawler only.
ShutdownClosesCrawlerOnly == {"crawler"}

\* The close() calls the handler makes: Promise.all([crawler.close(),
\* lunarCrush.close()]) calls both before awaiting either.
ShutdownCloses == {"crawler", "metrics"}

\* process.on('SIGINT'): the handler up to its await; oc and ol are the
\* outcomes of the two constructors.  A throwing constructor skips to the
\* catch block and process.exit(0).
Sigint(oc, ol) ==
    /\ running /\ mainPc # "load"
    /\ IF oc = "ok" /\ ol = "ok"
       THEN /\ sig' = [sig EXCEPT !.received = TRUE, !.awaiting = TRUE,
                                  !.closes = @ \cup ShutdownCloses]
            /\ UNCHANGED <<running, exitCode, mainPc>>
       ELSE /\ sig' = [sig EXCEPT !.received = TRUE, !.ctorFailed = TRUE]
            /\ Exit(0)
    /\ UNCHANGED <<variant, env, hostOffset, startDow, registered, day, regDay, ticks,
                   cfg>>

\* await Promise.all(...) settles (fulfilled or rejected): process.exit(0)
SigintSettle ==
    /\ running /\ sig.awaiting
    /\ Exit(0)
    /\ UNCHANGED <<variant, env, hostOffset, startDow, registered, day, regDay,
                   ticks, sig, cfg>>

Next ==
    \/ \E oc \in Outcomes, ol \in PlainOutcomes : Load(oc, ol)
    \/ \E i \in TickIds, o \in Outcomes, ol \in PlainOutcomes :
        CertikCrawlSettle(i, o, ol)
    \/ \E i \in TickIds, o \in PlainOutcomes, ol \in PlainOutcomes :
        CertikCloseSettle(i, o, ol)
    \/ \E i \in TickIds, o \in PlainOutcomes :
        \/ LunarEnsureSettle(i, o)
        \/ LunarSaveSettle(i, o)
        \/ LunarCloseSettle(i, o)
    \/ \E i \in TickIds, o \in FetchOutcomes : LunarFetchSettle(i, o)
    \/ \E oc \in Outcomes, ol \in PlainOutcomes : Midnight(oc, ol)
    \/ \E oc \in PlainOutcomes, ol \in PlainOutcomes : Sigint(oc, ol)
    \/ SigintSettle

Spec == Init /\ [][Next]_vars

\* ======================================================================
\* The configuration specification: module load, the first statements of
\* main() and one run of a Certik adapter, for every MAX_THREADS, core
\* count and PROXIES value; what is recorded is the resolved configuration
\* and the log.
\* ======================================================================
\* src/index.js does not read PROXIES.  The inputs vary one dimension at a
\* time.
InitConfig ==
    /\ variant \in Variants
    /\ env = AllSet
    /\ hostOffset = 0
    /\ startDow = 6
    /\ running = TRUE
    /\ exitCode = 0 - 1
    /\ mainPc = "load"
    /\ registered = FALSE
    /\ day = 0
    /\ regDay = 0 - 1
    /\ ticks = <<>>
    /\ sig = [received |-> FALSE, awaiting |-> FALSE, ctorFailed |-> FALSE,
              closes |-> {}]
    /\ \E mt \in MaxThreadsEnvs, n \in CpuCounts, raw \in ProxiesEnvs :
        /\ variant = "index_js" => raw.kind = "unset"
        /\ raw.kind = "unset" \/ (~mt.set /\ n = 8)
        /\ cfg = [NoCfg EXCEPT !.pc = "load", !.maxThreadsEnv = mt, !.cpus = n,
                               !.proxiesEnv = raw]

\* Loading the module: certikConfig is built.
LoadConfig ==
    /\ cfg.pc = "load"
    /\ cfg' = [cfg EXCEPT
                !.pc = "main",
                !.maxThreads = maxThreads(cfg.maxThreadsEnv, cfg.cpus),
                !.proxies = Proxies(variant, cfg.proxiesEnv),
                !.args = PuppeteerArgs(Proxies(variant, cfg.proxiesEnv)),
                !.log = LoadLog(variant, cfg.proxiesEnv)]
    /\ UNCHANGED <<variant, env, hostOffset, startDow, running, exitCode, mainPc,
                   registered, day, regDay, ticks, sig>>

\* main() up to the call of the first adapter.
MainStart ==
    /\ cfg.pc = "main"
    /\ cfg' = [cfg EXCEPT !.pc = "run",
                          !.log = @ \o MainLog(variant, cfg.proxies)]
    /\ UNCHANGED <<variant, env, hostOffset, startDow, running, exitCode, mainPc,
                   registered, day, regDay, ticks, sig>>

\* One run of the Certik adapter `sel`, up to the end of its catch block:
\* the constructor ends with oc, crawlData (if called) with o.
CertikJobLogs(sel, oc, o) ==
    /\ cfg.pc = "run"
    /\ oc # "ok" => o = "ok"
    /\ cfg' = [cfg EXCEPT
                !.pc = "done",
                !.job = [sel |-> sel, oc |-> oc, o |-> o],
                !.log = @ \o CertikJobLog(variant, sel, oc, o, cfg.proxies)]
    /\ UNCHANGED <<variant, env, hostOffset, startDow, running, exitCode, mainPc,
                   registered, day, regDay, ticks, sig>>

NextConfig ==
    \/ LoadConfig
    \/ MainStart
    \/ \E sel \in {"sync", "market"}, oc \in Outcomes, o \in Outcomes :
        CertikJobLogs(sel, oc, o)

SpecConfig == InitConfig /\ [][NextConfig]_vars

\* ======================================================================
\* Properties
\* ======================================================================
ScheduledIds == {i \in TickIds : ticks[i].kind = "scheduled"}

StartupIds == {i \in TickIds : ticks[i].kind = "startup"}

\* C1: in every tick the LunarCrush job has started only if the Certik job
\* of that tick has returned, so the two jobs of one tick are never in
\* progress together and LunarCrush never starts first.
C1_LunarAfterCertik ==
    \A i \in TickIds :
        /\ ticks[i].lunar.pc # "idle" => ticks[i].certik.pc = "returned"
        /\ ~(JobInProgress(ticks[i].certik) /\ JobInProgress(ticks[i].lunar))

\* C1 witness: a scheduled tick whose Certik job ended with a logged
\* failure (its constructor threw) and whose LunarCrush job is in progress.
C1_Witness ==
    \E i \in ScheduledIds :
        /\ ticks[i].certik.pc = "returned" /\ ticks[i].certik.client = "none"
        /\ JobInProgress(ticks[i].lunar)

\* The Certik job of tick t is over and a collaborator call of it is known
\* to have thrown: the adapter threw into its caller, or it returned
\* without ever holding a crawler (the constructor threw).
CertikJobFailed(t) ==
    \/ t.certik.pc = "threw"
    \/ t.certik.pc = "returned" /\ t.certik.client = "none"

\* C2 (as claimed): in every tick whose Certik job failed at a collaborator
\* call, the LunarCrush job is started in that tick.
C2_LunarStartsAfterCertikFailure ==
    \A i \in TickIds : CertikJobFailed(ticks[i]) => ticks[i].lunar.pc # "idle"

\* C3 (as claimed): no adapter throws into its caller, no tick is cut short
\* by a job failure, and the process exits with code 1 only from start-up
\* validation (before any tick).
C3_NoFailureEscapes ==
    /\ \A i \in TickIds :
        /\ ticks[i].certik.pc # "threw"
        /\ ticks[i].lunar.pc # "threw"
        /\ ticks[i].state # "rejected"
    /\ exitCode = 1 => ticks = <<>>

\* C4 (as claimed): a scheduled tick selects the synchronized Certik job
\* exactly when the UTC day of its 00:00 boundary is Sunday.
C4_SyncIffUtcSunday ==
    \A i \in ScheduledIds : ticks[i].sel = "sync" <=> UtcDow(ticks[i].at) = 0

\* C5 (as claimed): once validation has passed there is exactly one
\* start-up tick, it selects the synchronized Certik job, it consists of
\* that job followed by the LunarCrush job, and the recurring trigger is
\* registered only after it has completed.
C5_StartupTick ==
    mainPc # "load" /\ ~(exitCode = 1 /\ ticks = <<>>) =>
        /\ Cardinality(StartupIds) = 1
        /\ \A i \in StartupIds :
            /\ ticks[i].sel = "sync"
            /\ ticks[i].lunar.pc # "idle" => ticks[i].certik.pc = "returned"
            /\ ticks[i].state # "active" => JobDone(ticks[i].lunar)
            /\ registered => ticks[i].state = "complete"

TicksAt(d) == {i \in ScheduledIds : ticks[i].at = d}

\* C6 (as claimed): every 00:00 UTC boundary that has passed while the
\* process was running started exactly one scheduled tick.
C6_OneTickPerBoundary ==
    \A d \in 1..day : Cardinality(TicksAt(d)) = 1

\* C6 (amended): a boundary that passed after cron.schedule was called
\* started exactly one scheduled tick, whether or not an earlier tick was
\* still in progress; a boundary that passed before (while the start-up
\* tick was in progress) started none.
C6_OneTickPerBoundaryOnceRegistered ==
    \A d \in 1..day :
        Cardinality(TicksAt(d)) = IF regDay >= 0 /\ d > regDay THEN 1 ELSE 0

\* C6 witness: a boundary passed while an earlier scheduled tick was still
\* in progress, and started its own tick.
C6_Witness ==
    \E i \in ScheduledIds, j \in ScheduledIds :
        /\ ticks[i].at < ticks[j].at
        /\ ticks[i].state = "active"

\* No collaborator was constructed, no job started, no trigger registered.
NothingScheduled ==
    /\ ticks = <<>>
    /\ ~registered
    /\ ~sig.received

\* C7: with the API key missing or empty, the process exits with code 1
\* from validation and nothing is constructed, started or registered.
C7_MissingApiKeyIsFatal ==
    Falsy(env.apiKey) =>
        /\ NothingScheduled
        /\ mainPc # "load" => ~running /\ exitCode = 1

\* C7 witness: the process has exited on an empty API key.
C7_Witness == env.apiKey = "empty" /\ ~running

\* C8 (as claimed): with the connection string missing or empty, the
\* process exits with code 1 from validation and nothing is started.
C8_MissingMongoUrlIsFatal ==
    Falsy(env.mongo) =>
        /\ NothingScheduled
        /\ mainPc # "load" => ~running /\ exitCode = 1

\* C9 (as claimed): a job that has returned (or thrown) has called close()
\* on the client it created.
C9_ClientClosedOnReturn ==
    \A i \in TickIds :
        /\ JobDone(ticks[i].certik) => ticks[i].certik.client # "open"
        /\ JobDone(ticks[i].lunar) => ticks[i].lunar.client # "open"

CrawlerCloseInvoked ==
    \/ "crawler" \in sig.closes
    \/ \E i \in TickIds : ticks[i].certik.client = "closed"

MetricsCloseInvoked ==
    \/ "metrics" \in sig.closes
    \/ \E i \in TickIds : ticks[i].lunar.client = "closed"

ValidationFails == CertikValidationFails(variant, env) \/ LunarValidationFails(env)

\* C11 (as claimed): a process that has exited after receiving SIGINT has
\* exit code 0, and exit code 1 occurs only when start-up validation failed.
C11_ExitCodes ==
    /\ sig.received /\ ~running => exitCode = 0
    /\ exitCode = 1 => ValidationFails

ActiveTicks == {i \in TickIds : ticks[i].state = "active"}

JobsInProgress ==
    {<<i, "certik">> : i \in {n \in TickIds : JobInProgress(ticks[n].certik)}} \cup
    {<<i, "lunar">> : i \in {n \in TickIds : JobInProgress(ticks[n].lunar)}}

\* C13 (as claimed): at most one tick, and so at most one job, is in
\* progress at any time.
C13_AtMostOneTickInProgress ==
    /\ Cardinality(ActiveTicks) <= 1
    /\ Cardinality(JobsInProgress) <= 1

\* How far an adapter has come: each await is entered in this order.
CertikRank(pc) ==
    CASE pc = "idle" -> 0 [] pc = "crawl" -> 1 [] pc = "close" -> 2 [] OTHER -> 3

LunarRank(pc) ==
    CASE pc = "idle" -> 0 [] pc = "ensure" -> 1 [] pc = "fetch" -> 2
      [] pc = "save" -> 3 [] pc = "close" -> 4 [] OTHER -> 5

\* A step in which job pc `a` becomes `b` only moves forward: no
\* collaborator operation is entered a second time, a finished adapter is
\* not called again.
ForwardOnly(ra, rb, a, b) == IF a = b THEN TRUE ELSE ra < rb

C20_NoJobStartsAfterSigint ==
    [][sig.received =>
        /\ Len(ticks') = Len(ticks)
        /\ \A i \in TickIds :
            ticks[i].lunar.pc = "idle" => ticks'[i].lunar.pc = "idle"]_vars

\* The moves C17 allows a LunarCrush job in one step: the four operations
\* in order, each entered only when the one before it succeeded; after a
\* failure nothing but the release of the client; a job whose constructor
\* threw has no client and returns.
LunarOrder ==
    {<<"idle", "ensure">>, <<"idle", "returned">>,
     <<"ensure", "fetch">>, <<"ensure", "close">>,
     <<"fetch", "save">>, <<"fetch", "close">>,
     <<"save", "close">>,
     <<"close", "returned">>, <<"close", "threw">>}

\* C17 (as claimed): within a LunarCrush job the operations occur in the
\* order ensureCollection, fetchCryptocurrencies, saveToMongoDB, close;
\* saveToMongoDB gets the dataset that fetchCryptocurrencies returned; a
\* failure skips every later operation except the release of the client.
C17_LunarOrder ==
    [][\A i \in 1..Len(ticks') :
        LET old == IF i \in TickIds THEN ticks[i].lunar ELSE IdleJob
            new == ticks'[i].lunar
        IN  /\ old.pc # new.pc => <<old.pc, new.pc>> \in LunarOrder
            /\ new.pc = "save" =>
                 new.data \in Datasets /\ new.saveArg = new.data]_vars

\* ------------------------------------------------ configuration properties
Loaded == cfg.pc \in {"main", "run", "done"}

Colons(d) == {i \in 1..Len(d) : d[i] = ":"}

\* Position of the n-th colon of d; 0 for n = 0, Len(d) + 1 past the last.
NthColon(d, n) ==
    IF n = 0 THEN 0
    ELSE IF n > Cardinality(Colons(d)) THEN Len(d) + 1
    ELSE CHOOSE i \in Colons(d) : Cardinality({j \in Colons(d) : j < i}) = n - 1

\* The n-th colon-separated field of d.
FieldOf(d, n) == SubSeq(d, NthColon(d, n - 1) + 1, NthColon(d, n) - 1)

\* d has host, port, username and password, none of them empty.
ValidDescriptor(d) ==
    \A n \in 1..4 : n <= Cardinality(Colons(d)) + 1 /\ FieldOf(d, n) # <<>>

ExpectedRecord(d) ==
    [host |-> FieldOf(d, 1), port |-> FieldOf(d, 2), username |-> FieldOf(d, 3),
     password |-> FieldOf(d, 4),
     url |-> <<"http://">> \o FieldOf(d, 3) \o <<":">> \o FieldOf(d, 4) \o <<"@">>
             \o FieldOf(d, 1) \o <<":">> \o FieldOf(d, 2)]

StringList(raw) ==
    raw.kind = "list" /\ \A i \in 1..Len(raw.items) : raw.items[i].type = "string"

ValidIndexes(items) == {i \in 1..Len(items) : ValidDescriptor(items[i].chars)}

\* The k-th valid descriptor of the list, in input order.
NthValid(items, k) ==
    CHOOSE i \in ValidIndexes(items) :
        Cardinality({j \in ValidIndexes(items) : j < i}) = k - 1

Warned == \E n \in 1..Len(cfg.log) : cfg.log[n].msg = "Error parsing proxies:"

HasProxyArg == \E n \in 1..Len(cfg.args) : Head(cfg.args[n]) = "--proxy-server="

\* C14 (as claimed): PROXIES that is not valid list syntax, or a list of
\* strings without a colon, gives the empty pool, a logged warning, and a
\* start-up that goes on without a proxy.
C14_NoValidRecordWarns ==
    LET raw == cfg.proxiesEnv
    IN  /\ Loaded
        /\ \/ raw.kind = "invalid"
           \/ /\ StringList(raw) /\ Len(raw.items) > 0
              /\ \A i \in 1..Len(raw.items) : Colons(raw.items[i].chars) = {}
        => cfg.proxies = <<>> /\ ~HasProxyArg /\ Warned

\* C14 (amended): PROXIES that is set and yields no record gives the empty
\* pool and a start-up without a proxy; the warning is logged exactly when
\* it is not JSON, not a JSON list, or a list with an element that is not a
\* string, and not for a list of strings that lack a field.
C14_WarnsOnlyWhenParsingThrows ==
    LET raw == cfg.proxiesEnv
        unparsable == \/ raw.kind \in {"invalid", "object"}
                      \/ raw.kind = "list" /\ ~StringList(raw)
    IN  /\ Loaded
        /\ unparsable \/ (StringList(raw) /\ ValidIndexes(raw.items) = {})
        => cfg.proxies = <<>> /\ ~HasProxyArg /\ (Warned <=> unparsable)

\* C14 witness: start-up has gone on to a Certik job with PROXIES a list of
\* colon-less strings, and no warning is in the log.
C14_Witness ==
    /\ cfg.pc = "done"
    /\ StringList(cfg.proxiesEnv) /\ Len(cfg.proxiesEnv.items) > 0
    /\ \A i \in 1..Len(cfg.proxiesEnv.items) :
         Colons(cfg.proxiesEnv.items[i].chars) = {} /\ cfg.proxiesEnv.items[i].chars # <<>>
    /\ cfg.proxies = <<>> /\ ~Warned

\* The override is a decimal numeral of a positive integer.
PositiveNumeral(mt) ==
    /\ mt.set /\ mt.chars # <<>>
    /\ \A i \in 1..Len(mt.chars) : mt.chars[i] \in Digits
    /\ ReadDigits(mt.chars, 0) >= 1

\* C15 (as claimed): the concurrency limit is an integer of at least 1: the
\* override when that is a positive integer, max(cores - 2, 1) otherwise.
C15_MaxThreadsAtLeastOne ==
    Loaded =>
        /\ ~cfg.maxThreads.nan
        /\ cfg.maxThreads.val >= 1
        /\ cfg.maxThreads.val =
             IF PositiveNumeral(cfg.maxThreadsEnv)
             THEN ReadDigits(cfg.maxThreadsEnv.chars, 0)
             ELSE Max(cfg.cpus - 2, 1)

\* What the Certik job of the configuration specification failed with.
JobThrown == IF cfg.job.oc # "ok" THEN cfg.job.oc ELSE cfg.job.o

Occurs(sub, s) ==
    \E i \in 1..(Len(s) - Len(sub) + 1) : SubSeq(s, i, i + Len(sub) - 1) = sub

Diagnostics ==
    {n \in 1..Len(cfg.log) : cfg.log[n].msg = "Current proxy configuration:"}

\* A diagnostic record with host, port and the flag, and without the
\* password in any of its fields.
DiagnosticLogged ==
    /\ \E n \in Diagnostics :
         LET f == cfg.log[n].fields
         IN  /\ \E i \in 1..Len(f) : f[i] = cfg.proxies[1].host
             /\ \E i \in 1..Len(f) : f[i] = cfg.proxies[1].port
             /\ \E i \in 1..Len(f) : f[i] \in {<<"true">>, <<"false">>}
    /\ \A n \in Diagnostics : \A i \in 1..Len(cfg.log[n].fields) :
         ~Occurs(cfg.proxies[1].password, cfg.log[n].fields[i])

\* C18 (as claimed): a Certik job of either kind that failed with the
\* proxy-authentication marker while a proxy is configured has logged the
\* diagnostic record, which does not contain the password.
C18_AuthFailureDiagnostic ==
    cfg.pc = "done" /\ JobThrown = "AuthError" /\ Len(cfg.proxies) > 0
        => DiagnosticLogged

\* C18 (amended): the synchronized job that failed so has logged the
\* diagnostic record without the password; the market-only job has logged
\* no diagnostic record.
C18_SyncAuthFailureDiagnostic ==
    cfg.pc = "done" /\ JobThrown = "AuthError" /\ Len(cfg.proxies) > 0
        => IF cfg.job.sel = "sync" THEN DiagnosticLogged ELSE Diagnostics = {}

\* C18 witness: the synchronized job's crawlData failed with the marker while
\* a proxy is configured.
C18_Witness ==
    /\ cfg.pc = "done" /\ cfg.job.sel = "sync"
    /\ cfg.job.oc = "ok" /\ cfg.job.o = "AuthError"
    /\ Len(cfg.proxies) > 0

\* Descriptors a and b are valid and equal in all but the password.
SameButPassword(a, b) ==
    /\ ValidDescriptor(a) /\ ValidDescriptor(b)
    /\ Cardinality(Colons(a)) = Cardinality(Colons(b))
    /\ \A n \in 1..(Cardinality(Colons(a)) + 1) : n # 4 => FieldOf(a, n) = FieldOf(b, n)

DiffersOnlyInPasswords(r1, r2) ==
    /\ StringList(r1) /\ StringList(r2) /\ Len(r1.items) = Len(r2.items)
    /\ \A i \in 1..Len(r1.items) :
         \/ r1.items[i] = r2.items[i]
         \/ SameButPassword(r1.items[i].chars, r2.items[i].chars)

\* The log of the run with PROXIES = raw and the same job outcome.
RunLog(v, raw, job) ==
    LoadLog(v, raw) \o MainLog(v, Proxies(v, raw))
    \o CertikJobLog(v, job.sel, job.oc, job.o, Proxies(v, raw))

\* C19 (as claimed): the run with any PROXIES value that differs from this
\* run's only in passwords of valid descriptors logs the same records.
C19_LogIndependentOfPassword ==
    cfg.pc = "done" =>
        \A raw2 \in ProxiesEnvs :
            DiffersOnlyInPasswords(cfg.proxiesEnv, raw2)
                => RunLog(variant, raw2, cfg.job) = cfg.log
====
